---------------------------- MODULE Spec2Model ----------------------------
(***************************************************************************)
(* Model of src/src/quantization.rs (jpeg-encoder): construction of a      *)
(* QuantizationTable from a QuantizationTableType, a quality and the luma  *)
(* flag, and the two read operations get and quantize.                     *)
(*                                                                         *)
(* Arrays of 64 entries are functions over 0..63, as the code indexes      *)
(* them.  Fixed-width integers keep their width: u8 and u16 arithmetic is  *)
(* reduced modulo 2^8 and 2^16, an `as` cast truncates, and the one        *)
(* checked operation on i16 (negation) either panics or wraps, as the      *)
(* build's overflow-checks setting decides.                                *)
(***************************************************************************)
EXTENDS Integers, Sequences, FiniteSets, TLC

VARIABLES
    pc,               \* "init": no table yet; "ready"; "returned": a call has
                      \* returned and its value is in `result`; "panicked"
    table_type,       \* new_with_quality's argument `table`
    quality,          \* new_with_quality's argument `quality` (u8)
    luma,             \* new_with_quality's argument `luma`
    overflow_checks,  \* the build profile: TRUE panics on integer overflow, FALSE wraps
    table,            \* QuantizationTable.table; <<>> before construction
    op,               \* the last call: "none", "new", "get", "quantize"
    index,            \* the last call's `index`
    value,            \* the last quantize call's `value`
    result,           \* what the last get or quantize call returned
    wrapped           \* the last call's arithmetic left the range of its type

vars == <<pc, table_type, quality, luma, overflow_checks, table, op, index,
          value, result, wrapped>>

(***************************************************************************)
(* Program constants.                                                      *)
(***************************************************************************)
\* [NonZeroU16; 64], [u8; 64]: the number of table entries
N == 64
\* u8::MAX
U8_MAX == 255
\* i16::MIN and i16::MAX, the range of quantize's `value`
I16_MIN == -32768
I16_MAX == 32767

Indices == 0 .. (N - 1)
U8 == 0 .. U8_MAX

(***************************************************************************)
(* Bounds of the model.                                                    *)
(***************************************************************************)
\* Custom tables tried: ramps of 64 consecutive bytes starting at 64 * b,
\* b in 0 .. MaxRamp; with MaxRamp = 3 every byte 0 .. 255 is some entry
MaxRamp == 3
\* quantize inputs around the multiples 0 .. MaxMult of the step
MaxMult == 2
\* quantize inputs within MaxEdge of i16::MIN and of i16::MAX
MaxEdge == 4

(***************************************************************************)
(* Integer helpers: the machine arithmetic the code relies on.             *)
(***************************************************************************)
Min(a, b) == IF a <= b THEN a ELSE b
Max(a, b) == IF a >= b THEN a ELSE b

\* u32 arithmetic of get_with_quality is written exactly: with a u8 entry and
\* the clamped quality its largest value is 255 * 5000 + 50 and its smallest
\* is 200 - 2 * 100 = 0, so no operation leaves the range of u32
\* `x as u16` and u16 arithmetic
WrapU16(x) == x % 65536
\* `x as u8`
WrapU8(x) == x % 256
\* `x as i16` for an i32 x: two's complement truncation
ToI16(x) == ((x + 32768) % 65536) - 32768
\* `v << 3` on u16: the bits shifted out are dropped
Shl3(v) == WrapU16(v * 8)
\* `v >> 3` on u16
Shr3(v) == v \div 8
\* i32 `/`: division truncating toward zero (b > 0)
TruncDiv(a, b) == IF a >= 0 THEN a \div b ELSE -((-a) \div b)

(***************************************************************************)
(* The reference tables.                                                   *)
(***************************************************************************)
DEFAULT_LUMA_TABLE ==
    LET s == << 16, 11, 10, 16, 24, 40, 51, 61,
                12, 12, 14, 19, 26, 58, 60, 55,
                14, 13, 16, 24, 40, 57, 69, 56,
                14, 17, 22, 29, 51, 87, 80, 62,
                18, 22, 37, 56, 68, 109, 103, 77,
                24, 35, 55, 64, 81, 104, 113, 92,
                49, 64, 78, 87, 103, 121, 120, 101,
                72, 92, 95, 98, 112, 100, 103, 99 >>
    IN  [i \in Indices |-> s[i + 1]]

DEFAULT_CHROMA_TABLE ==
    LET s == << 17, 18, 24, 47, 99, 99, 99, 99,
                18, 21, 26, 66, 99, 99, 99, 99,
                24, 26, 56, 99, 99, 99, 99, 99,
                47, 66, 99, 99, 99, 99, 99, 99,
                99, 99, 99, 99, 99, 99, 99, 99,
                99, 99, 99, 99, 99, 99, 99, 99,
                99, 99, 99, 99, 99, 99, 99, 99,
                99, 99, 99, 99, 99, 99, 99, 99 >>
    IN  [i \in Indices |-> s[i + 1]]

\* enum QuantizationTableType
Default == [kind |-> "Default"]
Custom(bytes) == [kind |-> "Custom", bytes |-> bytes]

(***************************************************************************)
(* Construction.  A table entry is NonZeroU16::new(x).unwrap(): the entry  *)
(* 0 stands for the None that unwrap panics on.                            *)
(***************************************************************************)
\* the zero floor forgotten: a zero byte gives NonZeroU16::new(0)
get_user_table_nofloor(t) ==
    [i \in Indices |-> Shl3(WrapU16(t[i]))]

get_user_table(t) ==
    [i \in Indices |-> LET v == WrapU16(Max(t[i], 1)) IN Shl3(v)]

\* `quality.max(1).min(100) as u32`
Clamp(q) == Min(Max(q, 1), 100)

\* the factor 2 of the upper branch forgotten
Scale_nodouble(q) == IF q < 50 THEN 5000 \div q ELSE 200 - q

\* `scale`, from the clamped quality
Scale(q) == IF q < 50 THEN 5000 \div q ELSE 200 - q * 2

\* the loop body: one reference byte v to its step
Step(v, scale) ==
    LET v1 == (v * scale + 50) \div 100
        v2 == WrapU16(Min(Max(v1, 1), U8_MAX))
    IN  Shl3(v2)

\* the premultiply by 8 forgotten
get_with_quality_noshift(t, q) ==
    [i \in Indices |-> Shr3(Step(t[i], Scale(Clamp(q))))]

\* the lower clamp forgotten: at quality 0 the division 5000 / 0 panics and
\* no table is built
get_with_quality_nofloor(t, q) ==
    IF Min(q, 100) = 0
    THEN [i \in Indices |-> 0]
    ELSE [i \in Indices |-> Step(t[i], Scale(Min(q, 100)))]

get_with_quality(t, q) ==
    [i \in Indices |-> Step(t[i], Scale(Clamp(q)))]

\* the quality applied to a custom table as well
new_with_quality_scaled(tt, q, l) ==
    get_with_quality(IF tt.kind = "Custom" THEN tt.bytes
                     ELSE IF l THEN DEFAULT_LUMA_TABLE ELSE DEFAULT_CHROMA_TABLE, q)

new_with_quality(tt, q, l) ==
    IF tt.kind = "Custom"
    THEN get_user_table(tt.bytes)
    ELSE get_with_quality(IF l THEN DEFAULT_LUMA_TABLE ELSE DEFAULT_CHROMA_TABLE, q)

(***************************************************************************)
(* Reads.                                                                  *)
(***************************************************************************)
get(t, i) == WrapU8(Shr3(t[i]))

\* What one quantize call does: panic (the call never returns), wrapped (some
\* operation left the range of its type) and ret (the value returned).

\* the bias q / 2 forgotten: truncation instead of rounding
quantize_nobias(t, v, i, checks) ==
    LET q_value == t[i]
        mag     == IF v < 0 THEN -v ELSE v
        r       == IF v < 0 THEN -(mag \div q_value) ELSE mag \div q_value
    IN  [panic |-> FALSE, wrapped |-> FALSE, ret |-> ToI16(r)]

\* negative values rounded by floor division instead of negate-round-negate
quantize_floor(t, v, i, checks) ==
    LET q_value == t[i]
        r       == (v + q_value \div 2) \div q_value
    IN  [panic |-> FALSE, wrapped |-> FALSE, ret |-> ToI16(r)]

\* the sign not put back on a negative value
quantize_nosign(t, v, i, checks) ==
    LET q_value == t[i]
        mag     == IF v < 0 THEN -v ELSE v
        r       == (mag + q_value \div 2) \div q_value
    IN  [panic |-> FALSE, wrapped |-> FALSE, ret |-> ToI16(r)]

quantize(t, v, i, checks) ==
    LET q_value == t[i]
    IN  IF v < 0
        THEN \* `-value` is an i16 negation: -i16::MIN is not an i16
             LET overflow == (v = I16_MIN)
                 neg      == IF overflow THEN I16_MIN ELSE -v
                 r1       == TruncDiv(neg + q_value \div 2, q_value)
                 r2       == -r1
             IN  [panic   |-> checks /\ overflow,
                  wrapped |-> overflow \/ ToI16(r2) # r2,
                  ret     |-> ToI16(r2)]
        ELSE LET r == TruncDiv(v + q_value \div 2, q_value)
             IN  [panic   |-> FALSE,
                  wrapped |-> ToI16(r) # r,
                  ret     |-> ToI16(r)]

(***************************************************************************)
(* Inputs.                                                                 *)
(***************************************************************************)
\* A custom table of 64 consecutive bytes (mod 256) starting at 64 * b
Ramp(b) == [i \in Indices |-> (N * b + i) % (U8_MAX + 1)]

TableTypes == {Default} \cup {Custom(Ramp(b)) : b \in 0 .. MaxRamp}

\* Qualities of the tables that quantize is tried on: the two ends of the
\* clamped range and the value where the two branches of the scale meet
Qualities == {1, 50, 100}

I16 == I16_MIN .. I16_MAX

\* The coefficients quantize is tried on at step q: around each multiple of
\* q and each half step (the ties), of either sign, and the two ends of i16
Coefficients(q) ==
    LET near == {k * q + r : k \in 0 .. MaxMult,
                             r \in {0, 1, q \div 2 - 1, q \div 2, q \div 2 + 1, q - 1}}
        ends == (I16_MAX - MaxEdge) .. I16_MAX
    IN  {v \in near \cup {-x : x \in near} \cup ends \cup {-x : x \in ends}
                \cup {I16_MIN} : v \in I16}

\* tests::test_new_100_quantize: the values `i << 3`
Premultiplied == {ToI16(x * 8) : x \in (-U8_MAX) .. U8_MAX}

(***************************************************************************)
(* The state machine.                                                      *)
(***************************************************************************)
InitWith(types, qualities, profiles) ==
    /\ pc = "init"
    /\ table_type \in types
    /\ quality \in qualities
    /\ luma \in BOOLEAN
    /\ overflow_checks \in profiles
    /\ table = << >>
    /\ op = "none"
    /\ index = 0
    /\ value = 0
    /\ result = 0
    /\ wrapped = FALSE

\* QuantizationTable::new_with_quality(&table_type, quality, luma)
New ==
    /\ pc = "init"
    /\ LET t == new_with_quality(table_type, quality, luma)
       IN  IF \E i \in Indices : t[i] = 0
           THEN /\ pc' = "panicked"
                /\ table' = table
           ELSE /\ pc' = "ready"
                /\ table' = t
    /\ op' = "new"
    /\ UNCHANGED <<table_type, quality, luma, overflow_checks, index, value,
                   result, wrapped>>

\* self.get(i)
Get(i) ==
    /\ pc = "ready"
    /\ pc' = "returned"
    /\ op' = "get"
    /\ index' = i
    /\ result' = get(table, i)
    /\ wrapped' = FALSE
    /\ UNCHANGED <<table_type, quality, luma, overflow_checks, table, value>>

\* quantize writing the halved step back into the table
Quantize_scribble(v, i) ==
    /\ pc = "ready"
    /\ pc' = "returned"
    /\ op' = "quantize"
    /\ index' = i
    /\ value' = v
    /\ result' = quantize(table, v, i, overflow_checks).ret
    /\ wrapped' = FALSE
    /\ table' = [table EXCEPT ![i] = table[i] \div 2]
    /\ UNCHANGED <<table_type, quality, luma, overflow_checks>>

\* self.quantize(v, i)
Quantize(v, i) ==
    /\ pc = "ready"
    /\ LET r == quantize(table, v, i, overflow_checks)
       IN  /\ pc' = IF r.panic THEN "panicked" ELSE "returned"
           /\ result' = IF r.panic THEN result ELSE r.ret
           /\ wrapped' = r.wrapped
    /\ op' = "quantize"
    /\ index' = i
    /\ value' = v
    /\ UNCHANGED <<table_type, quality, luma, overflow_checks, table>>

\* The caller takes the returned value; the table is ready for the next call
Return ==
    /\ pc = "returned"
    /\ pc' = "ready"
    /\ op' = "none"
    /\ index' = 0
    /\ value' = 0
    /\ result' = 0
    /\ wrapped' = FALSE
    /\ UNCHANGED <<table_type, quality, luma, overflow_checks, table>>

\* Tables of a few qualities and of every step, read and applied
Init == InitWith(TableTypes, Qualities, BOOLEAN)

Next ==
    \/ New
    \/ pc = "ready" /\ \E i \in Indices : Get(i)
    \/ pc = "ready" /\ \E i \in Indices :
                          \E v \in Coefficients(table[i]) : Quantize(v, i)
    \/ Return

Spec == Init /\ [][Next]_vars

\* Every input of new_with_quality over the table types, then read.  Neither
\* new_with_quality nor get has an operation that overflow-checks could trap
\* (see Step and get), so one build profile is enough here.
InitBuild == InitWith(TableTypes, U8, {FALSE})

NextBuild ==
    \/ New
    \/ pc = "ready" /\ \E i \in Indices : Get(i)
    \/ Return

SpecBuild == InitBuild /\ [][NextBuild]_vars

\* tests::test_new_100_quantize, at every index and for both channels
InitRoundTrip == InitWith({Default}, {100}, BOOLEAN)

NextRoundTrip ==
    \/ New
    \/ pc = "ready" /\ \E i \in Indices :
                          \E v \in Premultiplied : Quantize(v, i)
    \/ Return

SpecRoundTrip == InitRoundTrip /\ [][NextRoundTrip]_vars

(***************************************************************************)
(* Properties.                                                             *)
(***************************************************************************)
Abs(x) == IF x < 0 THEN -x ELSE x
Sgn(x) == IF x < 0 THEN -1 ELSE IF x > 0 THEN 1 ELSE 0
Built == pc \in {"ready", "returned"}

\* C1: for every input of new_with_quality (Default or Custom, any quality
\* 0 .. 255, either luma flag) construction does not fail and every one of
\* the 64 stored steps is a non-zero multiple of 8 in [8, 2040].
C1_StepsValid ==
    /\ pc # "panicked"
    /\ Built => \A i \in Indices :
                    /\ table[i] % 8 = 0
                    /\ table[i] >= 8
                    /\ table[i] <= 8 * U8_MAX

\* a custom table with a zero byte, built at quality 0: both saturate
C1_Witness ==
    /\ op = "new" /\ pc = "ready"
    /\ table_type.kind = "Custom"
    /\ quality = 0
    /\ \E i \in Indices : table_type.bytes[i] = 0 /\ table[i] = 8

\* C2 (as claimed): no quantize call overflows, wraps or panics, for any i16
\* value and any step: every call returns and none of its operations left
\* the range of its type.
C2_NoOverflow ==
    op = "quantize" => (pc = "returned" /\ ~wrapped)

\* C3: at quality 100 with the Default source (luma or chroma), for every x
\* in [-255, 255] and every index i, quantize(x << 3, i) = x.
C3_RoundTrip ==
    (op = "quantize" /\ table_type = Default /\ quality = 100) =>
        /\ pc = "returned"
        /\ result \in (-U8_MAX) .. U8_MAX
        /\ value = ToI16(result * 8)

C3_Witness ==
    /\ op = "quantize" /\ pc = "returned"
    /\ table_type = Default /\ quality = 100 /\ ~luma
    /\ index = N - 1
    /\ value = -(8 * U8_MAX)
    /\ result = -U8_MAX

\* C4: for the Default source at quality 100, luma and chroma, every one of
\* the 64 steps is exactly 8, and get(i) returns 1 at every index.
C4_Quality100 ==
    (table_type = Default /\ quality = 100 /\ pc # "init") =>
        /\ Built
        /\ \A i \in Indices : table[i] = 8
        /\ op = "get" => result = 1

C4_Witness ==
    /\ table_type = Default /\ quality = 100 /\ ~luma
    /\ op = "get" /\ pc = "returned"
    /\ index = N - 1
    /\ result = 1
    /\ table[index] = 8

\* C5: sign symmetry: whenever v and -v are both i16 values, quantize(-v, idx)
\* returns, and returns the negation of quantize(v, idx).
C5_SignSymmetry ==
    (op = "quantize" /\ value # I16_MIN) =>
        /\ pc = "returned"
        /\ LET m == quantize(table, -value, index, overflow_checks)
           IN  ~m.panic /\ m.ret = -result

\* a negative tie: -q/2 goes to -1 as q/2 goes to 1
C5_Witness ==
    /\ op = "quantize" /\ pc = "returned"
    /\ value < 0
    /\ 2 * (-value) = table[index]
    /\ result = -1

\* C6: clamping of the quality for the Default source: construction never
\* fails, the table built at quality 0 is the table built at quality 1, and
\* the table built at any quality in 101 .. 255 is the one built at 100.
C6_Clamping ==
    (table_type = Default /\ op = "new") =>
        /\ pc = "ready"
        /\ quality = 0 => table = new_with_quality(Default, 1, luma)
        /\ quality > 100 => table = new_with_quality(Default, 100, luma)

C6_Witness ==
    /\ table_type = Default /\ op = "new" /\ pc = "ready"
    /\ quality = 0 /\ luma
    /\ table[0] = 8 * U8_MAX
    /\ table = new_with_quality(Default, 1, luma)

\* C7: monotonicity in the quality for the Default source: for either
\* channel and every index, get(i) of the table built at a lower quality is
\* at least get(i) of the table built at a higher one.
C7_Monotone ==
    (table_type = Default /\ op = "get") =>
        \A q1 \in U8 :
            q1 < quality =>
                get(new_with_quality(Default, q1, luma), index) >= result

\* the pair 49 < 50 straddles the two branches of the scale, strictly
C7_Witness ==
    /\ table_type = Default /\ op = "get" /\ pc = "returned"
    /\ quality = 50
    /\ get(new_with_quality(Default, 49, luma), index) > result

\* C8: a Custom table is taken as given: whatever the quality and the luma
\* flag, the step at i is 8 * max(c[i], 1) and get(i) is max(c[i], 1).
C8_CustomAsGiven ==
    (table_type.kind = "Custom" /\ pc # "init") =>
        /\ Built
        /\ \A i \in Indices : table[i] = 8 * Max(table_type.bytes[i], 1)
        /\ op = "get" => result = Max(table_type.bytes[index], 1)

C8_Witness ==
    /\ table_type.kind = "Custom" /\ op = "get" /\ pc = "returned"
    /\ quality = 0 /\ ~luma
    /\ table_type.bytes[index] = 0
    /\ result = 1

\* C9: quantize rounds to the nearest multiple of the step, ties away from
\* zero: for |v| <= 32767 and step q the result r has the sign of v or is 0,
\* 2 * |v - r*q| <= q, an exact tie has |r| * q > |v|, and
\* r = sign(v) * ((|v| + q/2) div q).
C9_RoundNearest ==
    (op = "quantize" /\ value # I16_MIN) =>
        /\ pc = "returned"
        /\ LET q == table[index]
               r == result
           IN  /\ r > 0 => value > 0
               /\ r < 0 => value < 0
               /\ 2 * Abs(value - r * q) <= q
               /\ 2 * Abs(value - r * q) = q => Abs(r) * q > Abs(value)
               /\ r = Sgn(value) * ((Abs(value) + q \div 2) \div q)

\* a positive tie above the first multiple: 2q + q/2 goes up to 3
C9_Witness ==
    /\ op = "quantize" /\ pc = "returned"
    /\ value = 2 * table[index] + table[index] \div 2
    /\ result = 3

\* C10: the table is immutable after construction: no get or quantize call
\* (nor its return) changes any of the 64 steps, every value get(i) returns
\* times 8 is the step stored at i, and what a call returns is determined by
\* the table as constructed and the call's arguments.
C10_Immutable ==
    [][/\ pc # "init" => table' = table
       /\ (op' = "get" /\ pc' = "returned") => result' * 8 = table'[index']
       /\ (op' = "quantize" /\ pc' = "returned") =>
              result' = quantize(new_with_quality(table_type, quality, luma),
                                 value', index', overflow_checks).ret]_vars

\* back in "ready" after a call has returned, with the table as constructed
C10_Witness ==
    /\ pc = "ready" /\ op = "none"
    /\ table = new_with_quality(table_type, quality, luma)

==========================================================================
